---- MODULE Spec2Model ----
(***************************************************************************)
(* Model of aws-cf-generator: DirInfo (lib/dir-info.js) and the recursive  *)
(* asynchronous loader TemplateBuilder (lib/template-builder.js).          *)
(*                                                                         *)
(* Strings are tuples of one-character strings, so that split, join and    *)
(* path normalisation are computed character by character.                 *)
(***************************************************************************)
EXTENDS Integers, Sequences, FiniteSets, Bags, TLC

(***************************************************************************)
(* Bounds of the model.                                                    *)
(***************************************************************************)
\* Total number of directory entries in the whole tree that is built.
MaxEntries == 2
\* Length of a non-empty array of templates exported by a generator file.
MaxDocs == 2
\* Length of the relative path a DirInfo is constructed with.
MaxPathLen == 3
\* Number of finalize calls on the Template object.
MaxFinalize == 3
\* Length of the arrays that grow through a handle to a property.
MaxItems == 1

(***************************************************************************)
(* Strings and the parts of node's path module that the code uses.         *)
(***************************************************************************)
\* path.sep on POSIX.
Sep == "/"

\* const JOIN_CHARACTER = '_';
JOIN_CHARACTER == "_"

RECURSIVE SplitFrom(_, _, _)
\* Helper of Split: cur is the token being accumulated while scanning s.
SplitFrom(s, sep, cur) ==
    IF s = <<>> THEN <<cur>>
    ELSE IF Head(s) = sep THEN <<cur>> \o SplitFrom(Tail(s), sep, <<>>)
    ELSE SplitFrom(Tail(s), sep, Append(cur, Head(s)))

\* String.prototype.split(sep) for a one-character separator.
Split(s, sep) == SplitFrom(s, sep, <<>>)

RECURSIVE Join(_, _)
\* Array.prototype.join(sep).
Join(tokens, sep) ==
    IF tokens = <<>> THEN <<>>
    ELSE IF Len(tokens) = 1 THEN tokens[1]
    ELSE tokens[1] \o <<sep>> \o Join(Tail(tokens), sep)

RECURSIVE NormalizeSegments(_, _, _)
\* path.normalize's walk over the segments: empty and "." segments are
\* dropped, ".." removes the segment before it (kept when nothing is left
\* to remove in a relative path, dropped in an absolute one).
NormalizeSegments(segs, acc, isAbs) ==
    IF segs = <<>> THEN acc
    ELSE LET s == Head(segs)
             rest == Tail(segs)
         IN  IF s = <<>> \/ s = <<".">> THEN NormalizeSegments(rest, acc, isAbs)
             ELSE IF s = <<".", ".">>
                  THEN IF acc # <<>> /\ acc[Len(acc)] # <<".", ".">>
                       THEN NormalizeSegments(rest, SubSeq(acc, 1, Len(acc) - 1), isAbs)
                       ELSE IF isAbs THEN NormalizeSegments(rest, acc, isAbs)
                            ELSE NormalizeSegments(rest, Append(acc, s), isAbs)
                  ELSE NormalizeSegments(rest, Append(acc, s), isAbs)

\* path.normalize (POSIX): a leading and a trailing separator are kept, an
\* empty result is ".".
PathNormalize(p) ==
    IF p = <<>> THEN <<".">>
    ELSE LET isAbs == p[1] = Sep
             trailing == p[Len(p)] = Sep
             body == Join(NormalizeSegments(Split(p, Sep), <<>>, isAbs), Sep)
             body2 == IF body = <<>> /\ ~isAbs THEN <<".">> ELSE body
             body3 == IF body2 # <<>> /\ trailing /\ body2[Len(body2)] # Sep
                      THEN Append(body2, Sep) ELSE body2
         IN  IF isAbs THEN <<Sep>> \o body3 ELSE body3

\* path.join(...parts): the non-empty parts joined by the separator, then
\* normalised; "." when every part is empty.
PathJoin(parts) ==
    LET nonEmpty == SelectSeq(parts, LAMBDA x : x # <<>>)
    IN  IF nonEmpty = <<>> THEN <<".">> ELSE PathNormalize(Join(nonEmpty, Sep))

\* Index of the last occurrence of c in s, 0 when there is none.
LastIndexOf(s, c) ==
    LET at == {i \in 1..Len(s) : s[i] = c}
    IN  IF at = {} THEN 0 ELSE CHOOSE i \in at : \A j \in at : j <= i

\* path.parse(p).ext: from the last "." of the base name to its end; empty
\* when there is no "." or when the base name starts with its only ".".
PathExt(p) ==
    LET base == SubSeq(p, LastIndexOf(p, Sep) + 1, Len(p))
        dot == LastIndexOf(base, ".")
    IN  IF dot <= 1 THEN <<>> ELSE SubSeq(base, dot, Len(base))

(***************************************************************************)
(* DirInfo (lib/dir-info.js).                                              *)
(***************************************************************************)
\* The value null.
Null == <<"null">>

\* What a call that throws returns in the model.
Thrown == <<"Error">>

\* The absolute template root every DirInfo of the model is built under
\* (path.resolve of an absolute path without a trailing separator is the
\* path itself).
TemplateRoot == <<"/", "t">>

\* The DirInfo field of an object that does not exist (yet).
NoDirInfo ==
    [templateRoot |-> <<>>, relPath |-> <<>>, dirPath |-> <<>>, pathTokens |-> <<>>]

\* What a DirInfo constructor call that throws yields in the model.
ThrownDirInfo == [NoDirInfo EXCEPT !.dirPath = Thrown]

\* typeof x === 'string' && x.length > 0, for the strings of the model.
ValidString(s) == s # <<>>

\* new DirInfo with the tokens split from the absolute directory path
\* instead of the relative path.
NewDirInfoSplitsDirPath(templateRoot, relPath) ==
    IF ~ValidString(templateRoot) \/ ~ValidString(relPath) THEN ThrownDirInfo
    ELSE [ templateRoot |-> templateRoot,
           relPath      |-> relPath,
           dirPath      |-> PathJoin(<<templateRoot, relPath>>),
           pathTokens   |-> Split(PathJoin(<<templateRoot, relPath>>), Sep) ]

\* new DirInfo(templateRoot, relPath): ThrownDirInfo on an invalid argument.
NewDirInfo(templateRoot, relPath) ==
    IF ~ValidString(templateRoot) \/ ~ValidString(relPath) THEN ThrownDirInfo
    ELSE [ templateRoot |-> templateRoot,
           relPath      |-> relPath,
           dirPath      |-> PathJoin(<<templateRoot, relPath>>),
           pathTokens   |-> Split(relPath, Sep) ]

\* get level()
Level(dirInfo) == Len(dirInfo.pathTokens)

\* getFilePath(fileName): path.resolve(absPath, fileName) for a relative
\* file name under an absolute directory path.
GetFilePath(dirInfo, fileName) ==
    IF ~ValidString(fileName) THEN Thrown
    ELSE IF fileName[1] = Sep THEN PathNormalize(fileName)
    ELSE PathNormalize(dirInfo.dirPath \o <<Sep>> \o fileName)

\* getToken(tokenValue)
GetToken(dirInfo, tokenValue) ==
    IF ~ValidString(tokenValue) THEN Thrown
    ELSE Join(dirInfo.pathTokens, JOIN_CHARACTER) \o <<JOIN_CHARACTER>> \o tokenValue

\* getParentToken with the parent's length taken as the full length (the
\* "- 1" of line 98 left out).
GetParentTokenOffByOne(dirInfo, tokenValue) ==
    IF ~ValidString(tokenValue) THEN Thrown
    ELSE LET tokenLength == Len(dirInfo.pathTokens)
         IN  IF tokenLength = 0 THEN Null
             ELSE Join(SubSeq(dirInfo.pathTokens, 1, tokenLength), JOIN_CHARACTER)
                      \o <<JOIN_CHARACTER>> \o tokenValue

\* getParentToken(tokenValue)
GetParentToken(dirInfo, tokenValue) ==
    IF ~ValidString(tokenValue) THEN Thrown
    ELSE LET tokenLength == Len(dirInfo.pathTokens) - 1
         IN  IF tokenLength = 0 THEN Null
             ELSE Join(SubSeq(dirInfo.pathTokens, 1, tokenLength), JOIN_CHARACTER)
                      \o <<JOIN_CHARACTER>> \o tokenValue

\* getRootToken built from the last path token instead of the first.
GetRootTokenLast(dirInfo, tokenValue) ==
    IF ~ValidString(tokenValue) THEN Thrown
    ELSE dirInfo.pathTokens[Len(dirInfo.pathTokens)] \o <<JOIN_CHARACTER>> \o tokenValue

\* getRootToken(tokenValue)
GetRootToken(dirInfo, tokenValue) ==
    IF ~ValidString(tokenValue) THEN Thrown
    ELSE dirInfo.pathTokens[1] \o <<JOIN_CHARACTER>> \o tokenValue

\* getChildDir with the child's name put before the parent's tokens.
GetChildDirPrepends(dirInfo, dir) ==
    IF ~ValidString(dir) THEN ThrownDirInfo
    ELSE NewDirInfo(dirInfo.templateRoot, PathJoin(<<dir>> \o dirInfo.pathTokens))

\* getChildDir(dir)
GetChildDir(dirInfo, dir) ==
    IF ~ValidString(dir) THEN ThrownDirInfo
    ELSE NewDirInfo(dirInfo.templateRoot, PathJoin(Append(dirInfo.pathTokens, dir)))

(***************************************************************************)
(* The file system that is walked: a tree of at most MaxEntries entries.   *)
(* Directory 0 is the directory of the root DirInfo; entry e > 0, when it  *)
(* is a directory, is directory e.                                         *)
(***************************************************************************)
\* The extension _generateTemplates recognises (line 70).
JsExt == <<".", "j", "s">>

\* The module record of an entry that is not a generator file.
NoModule ==
    [load |-> "none", callable |-> FALSE, call |-> "none",
     pending |-> FALSE, isArray |-> FALSE, n |-> 0]

\* What a generator finally yields: one template, or an array of n
\* templates (empty, or of MaxDocs templates).
Shapes ==
    {[isArray |-> FALSE, n |-> 1]} \cup {[isArray |-> TRUE, n |-> k] : k \in {0, MaxDocs}}

\* The modules require() can deliver for a generator file: loading throws;
\* a static value; a function that throws, returns a value, or returns a
\* promise (pending computation) of a value.
Modules ==
    {[NoModule EXCEPT !.load = "throws"]}
    \cup {[NoModule EXCEPT !.load = "ok", !.isArray = s.isArray, !.n = s.n] : s \in Shapes}
    \cup {[NoModule EXCEPT !.load = "ok", !.callable = TRUE, !.call = "throws"]}
    \cup {[NoModule EXCEPT !.load = "ok", !.callable = TRUE, !.call = "ok",
                           !.pending = p, !.isArray = s.isArray, !.n = s.n] :
              s \in Shapes, p \in BOOLEAN}

\* The kinds of directory entry: stat fails; a directory (whose own listing
\* succeeds or fails, and whose name may carry the .js extension); a file
\* without the generator extension; a generator file.
Kinds ==
    {[stat |-> "err", ext |-> <<>>, list |-> "none", mod |-> NoModule]}
    \cup {[stat |-> "dir", ext |-> <<>>, list |-> l, mod |-> NoModule] : l \in {"ok", "err"}}
    \cup {[stat |-> "dir", ext |-> JsExt, list |-> "ok", mod |-> NoModule]}
    \cup {[stat |-> "file", ext |-> <<>>, list |-> "none", mod |-> NoModule]}
    \cup {[stat |-> "file", ext |-> JsExt, list |-> "none", mod |-> m] : m \in Modules}

(***************************************************************************)
(* Template: the property tree of a template, the caller's objects and     *)
(* the outputs of finalize live in one object heap, so that sharing of an  *)
(* object between them can be told from a copy.                            *)
(***************************************************************************)
\* The property names tried, in the order for-in enumerates them; the last
\* one is the key of a template, which names a property of its exports.
KeyOrder == <<"p", "q", "a-b">>
Keys == {KeyOrder[i] : i \in 1..Len(KeyOrder)}

\* The names of array indices in the path to a value.
IndexKey == <<"0", "1", "2", "3">>

\* A JavaScript value: a string (a sequence of tokens), a number, undefined
\* or a reference to an object of the heap; "absent" marks a property an
\* object does not have.
Val(t, s, n) == [t |-> t, s |-> s, n |-> n]
Absent == Val("absent", <<>>, 0)
Undefined == Val("undefined", <<>>, 0)
Num(n) == Val("number", <<>>, n)
Str(s) == Val("string", s, 0)
Ref(id) == Val("ref", <<>>, id)

\* An object of the heap: a plain object with its properties, or an array
\* with its items.
NoFields == [k \in Keys |-> Absent]
MapObj(m) == [kind |-> "map", m |-> m, a |-> <<>>]
ArrObj(a) == [kind |-> "arr", m |-> NoFields, a |-> a]
Fields(p, q) == [k \in Keys |-> IF k = "p" THEN p ELSE IF k = "q" THEN q ELSE Absent]

\* The property names that the caller and the setters write to.
WriteKeys == {"p", "q"}

\* The key arguments of the constructor (an empty one is refused), and
\* _camelCase(key) for them.
KeyArgs == {"", "a-b"}
CamelCase == [k \in KeyArgs |-> IF k = "a-b" THEN "aB" ELSE k]

\* The identifiers of placeholders and the placeholder tokens of strings,
\* written with the two halves of the delimiter '<%  %>'.
Idents == {"x", "y", "z"}
PlaceholderOf == [x |-> "<% x %>", y |-> "<% y %>", z |-> "<% z %>"]
IsPlaceholder(tok) == \E i \in Idents : PlaceholderOf[i] = tok
IdentOf(tok) == CHOOSE i \in Idents : PlaceholderOf[i] = tok

\* What interpolate does with a placeholder that the data has no value
\* for: the library is not part of this repository, both outcomes are kept.
UnmatchedModes == {"verbatim", "empty"}

\* interpolate that replaces the first placeholder it finds and leaves the
\* rest of the string as it is.
InterpolateFirst(str, data, mode) ==
    IF \A i \in 1..Len(str) : ~IsPlaceholder(str[i]) THEN str
    ELSE LET i == CHOOSE j \in 1..Len(str) :
                     IsPlaceholder(str[j]) /\ \A l \in 1..(j - 1) : ~IsPlaceholder(str[l])
         IN  SubSeq(str, 1, i - 1)
             \o (IF IdentOf(str[i]) \in data.keys THEN data.vals[IdentOf(str[i])]
                 ELSE IF mode = "verbatim" THEN <<str[i]>> ELSE <<>>)
             \o SubSeq(str, i + 1, Len(str))

\* interpolate(value, data, { delimiter: '<%  %>' }): every placeholder
\* that names a key of data is replaced by the value of that key.
RECURSIVE Interpolate(_, _, _)
Interpolate(str, data, mode) ==
    IF str = <<>> THEN <<>>
    ELSE IF ~IsPlaceholder(Head(str))
         THEN <<Head(str)>> \o Interpolate(Tail(str), data, mode)
    ELSE IF IdentOf(Head(str)) \in data.keys
         THEN data.vals[IdentOf(Head(str))] \o Interpolate(Tail(str), data, mode)
    ELSE IF mode = "verbatim"
         THEN <<Head(str)>> \o Interpolate(Tail(str), data, mode)
    ELSE Interpolate(Tail(str), data, mode)

\* The data bags passed to finalize: none, an array, and objects.
Bag(type, keys, x, y) ==
    [type |-> type, keys |-> keys,
     vals |-> [i \in Idents |-> IF i = "x" THEN x ELSE IF i = "y" THEN y ELSE <<>>]]
EmptyData == Bag("object", {}, <<>>, <<>>)
DataBags ==
    { Bag("undefined", {}, <<>>, <<>>),
      Bag("array", {}, <<>>, <<>>),
      Bag("object", {"x"}, <<"V">>, <<>>),
      Bag("object", {"x", "y"}, <<"W">>, <<"V", "V">>) }

\* The first statement of finalize: data that is not a plain object is
\* replaced by {}.
EffectiveData(data) == IF data.type = "object" THEN data ELSE EmptyData

\* _finalizeProperty that returns arrays and objects as they are.
FinalizePropertyShares(h, value, data, mode) ==
    IF value.t = "string"
    THEN [h |-> h, v |-> Str(Interpolate(value.s, data, mode))]
    ELSE [h |-> h, v |-> value]

\* _finalizeProperty(value, data) on heap h: the heap after the call and the
\* value returned. A string is interpolated, an array is mapped into a new
\* array, an object is copied property by property into a new object, and
\* any other value is returned as it is.
RECURSIVE FinalizeProperty(_, _, _, _)
RECURSIVE FinalizeItems(_, _, _, _, _, _)
RECURSIVE FinalizeProps(_, _, _, _, _, _)
FinalizeProperty(h, value, data, mode) ==
    IF value.t = "string"
    THEN [h |-> h, v |-> Str(Interpolate(value.s, data, mode))]
    ELSE IF value.t = "ref" /\ h[value.n].kind = "arr"
    THEN FinalizeItems(Append(h, ArrObj(<<>>)), value.n, Len(h) + 1, 1, data, mode)
    ELSE IF value.t = "ref"
    THEN FinalizeProps(Append(h, MapObj(NoFields)), value.n, Len(h) + 1, KeyOrder, data, mode)
    ELSE [h |-> h, v |-> value]

\* A map over the items that collects the results last to first.
FinalizeItemsReversed(h, src, dst, i, data, mode) ==
    IF i > Len(h[src].a) THEN [h |-> h, v |-> Ref(dst)]
    ELSE LET r == FinalizeProperty(h, h[src].a[i], data, mode)
         IN  FinalizeItems([r.h EXCEPT ![dst].a = <<r.v>> \o @],
                           src, dst, i + 1, data, mode)

\* value.map((item) => this._finalizeProperty(item, data)), from item i on.
FinalizeItems(h, src, dst, i, data, mode) ==
    IF i > Len(h[src].a) THEN [h |-> h, v |-> Ref(dst)]
    ELSE LET r == FinalizeProperty(h, h[src].a[i], data, mode)
         IN  FinalizeItems([r.h EXCEPT ![dst].a = Append(@, r.v)],
                           src, dst, i + 1, data, mode)

\* for(let prop in value) { result[prop] = this._finalizeProperty(...) },
\* for the properties still to visit.
FinalizeProps(h, src, dst, keys, data, mode) ==
    IF keys = <<>> THEN [h |-> h, v |-> Ref(dst)]
    ELSE IF h[src].m[Head(keys)] = Absent
    THEN FinalizeProps(h, src, dst, Tail(keys), data, mode)
    ELSE LET r == FinalizeProperty(h, h[src].m[Head(keys)], data, mode)
         IN  FinalizeProps([r.h EXCEPT ![dst].m[Head(keys)] = r.v],
                           src, dst, Tail(keys), data, mode)

\* finalize(data), for the Properties of the result: a new object that
\* gets every property of this._properties, finalized.
Finalize(h, props, data, mode) ==
    FinalizeProps(Append(h, MapObj(NoFields)), props.n, Len(h) + 1, KeyOrder,
                  EffectiveData(data), mode)

\* A copy that is the value itself.
CloneShares(h, value) == [h |-> h, v |-> value]

\* _clone(value): a deep copy, every object and array of it a new one.
RECURSIVE Clone(_, _)
RECURSIVE CloneItems(_, _, _, _)
RECURSIVE CloneProps(_, _, _, _)
Clone(h, value) ==
    IF value.t = "ref" /\ h[value.n].kind = "arr"
    THEN CloneItems(Append(h, ArrObj(<<>>)), value.n, Len(h) + 1, 1)
    ELSE IF value.t = "ref"
    THEN CloneProps(Append(h, MapObj(NoFields)), value.n, Len(h) + 1, KeyOrder)
    ELSE [h |-> h, v |-> value]

CloneItems(h, src, dst, i) ==
    IF i > Len(h[src].a) THEN [h |-> h, v |-> Ref(dst)]
    ELSE LET r == Clone(h, h[src].a[i])
         IN  CloneItems([r.h EXCEPT ![dst].a = Append(@, r.v)], src, dst, i + 1)

CloneProps(h, src, dst, keys) ==
    IF keys = <<>> THEN [h |-> h, v |-> Ref(dst)]
    ELSE IF h[src].m[Head(keys)] = Absent
    THEN CloneProps(h, src, dst, Tail(keys))
    ELSE LET r == Clone(h, h[src].m[Head(keys)])
         IN  CloneProps([r.h EXCEPT ![dst].m[Head(keys)] = r.v], src, dst, Tail(keys))

\* The props argument as the constructor uses it: anything but a plain
\* object is replaced by a new {}.
PropsOf(h, props) ==
    IF props.t = "ref" /\ h[props.n].kind = "map"
    THEN [h |-> h, v |-> props]
    ELSE [h |-> Append(h, MapObj(NoFields)), v |-> Ref(Len(h) + 1)]

\* The value of v as a tree, whatever objects hold it: the set of the
\* paths in it, each with the scalar at its end or with the kind of
\* container there (an array with its length).
RECURSIVE Deep(_, _, _)
Deep(h, v, path) ==
    IF v.t # "ref" THEN {<<path, v>>}
    ELSE IF h[v.n].kind = "arr"
    THEN {<<path, Val("arr", <<>>, Len(h[v.n].a))>>}
         \cup UNION {Deep(h, h[v.n].a[i], Append(path, IndexKey[i])) :
                        i \in 1..Len(h[v.n].a)}
    ELSE {<<path, Val("map", <<>>, 0)>>}
         \cup UNION {Deep(h, h[v.n].m[k], Append(path, k)) :
                        k \in {j \in Keys : h[v.n].m[j] # Absent}}

\* The objects that can be reached from v.
RECURSIVE Reach(_, _)
Reach(h, v) ==
    IF v.t # "ref" THEN {}
    ELSE {v.n}
         \cup UNION {Reach(h, h[v.n].a[i]) : i \in 1..Len(h[v.n].a)}
         \cup UNION {Reach(h, h[v.n].m[k]) : k \in Keys}

\* The defaultValue arguments of _ensureProperty: none, {} and [], and the
\* new object each of them stands for (the callers that pass none write
\* properties to what is returned).
Defaults == {"none", "map", "arr"}
DefaultObj(def) == IF def = "arr" THEN ArrObj(<<>>) ELSE MapObj(NoFields)

\* Whether an object lacks a value for a property: it has none or has
\* undefined.
Missing(v) == v = Absent \/ v = Undefined

\* Whether _ensureProperty can walk the path from object id: every
\* property on the way but the last is missing or an object.
RECURSIVE Walkable(_, _, _)
Walkable(h, id, path) ==
    IF Len(path) = 1 \/ Missing(h[id].m[Head(path)]) THEN TRUE
    ELSE IF h[id].m[Head(path)].t # "ref" THEN FALSE
    ELSE IF h[h[id].m[Head(path)].n].kind # "map" THEN FALSE
    ELSE Walkable(h, h[id].m[Head(path)].n, Tail(path))

\* _ensureProperty that sets the default value whatever the property holds.
RECURSIVE EnsureProperty(_, _, _, _)
EnsurePropertyOverwrites(h, id, path, def) ==
    IF Len(path) = 1
    THEN [h |-> Append([h EXCEPT ![id].m[Head(path)] = Ref(Len(h) + 1)], DefaultObj(def)),
          v |-> Ref(Len(h) + 1)]
    ELSE IF Missing(h[id].m[Head(path)])
    THEN EnsureProperty(Append([h EXCEPT ![id].m[Head(path)] = Ref(Len(h) + 1)],
                               MapObj(NoFields)),
                        Len(h) + 1, Tail(path), def)
    ELSE EnsureProperty(h, h[id].m[Head(path)].n, Tail(path), def)

\* _ensureProperty(path, defaultValue) from object id on: a missing
\* property on the way gets a new object, a missing last property gets the
\* default value, and what the last property holds is returned.
EnsureProperty(h, id, path, def) ==
    IF Len(path) = 1
    THEN IF Missing(h[id].m[Head(path)])
         THEN [h |-> Append([h EXCEPT ![id].m[Head(path)] = Ref(Len(h) + 1)],
                            DefaultObj(def)),
               v |-> Ref(Len(h) + 1)]
         ELSE [h |-> h, v |-> h[id].m[Head(path)]]
    ELSE IF Missing(h[id].m[Head(path)])
    THEN EnsureProperty(Append([h EXCEPT ![id].m[Head(path)] = Ref(Len(h) + 1)],
                               MapObj(NoFields)),
                        Len(h) + 1, Tail(path), def)
    ELSE EnsureProperty(h, h[id].m[Head(path)].n, Tail(path), def)

\* The property paths passed to _ensureProperty.
EnsurePaths == {<<"q">>, <<"q", "p">>, <<"p", "q">>}

\* The exports argument as the constructor uses it: anything but a plain
\* object is replaced by a new {}.
ExportsOf(h, exports) ==
    IF exports.t = "ref" /\ h[exports.n].kind = "map"
    THEN [h |-> h, v |-> exports]
    ELSE [h |-> Append(h, MapObj(NoFields)), v |-> Ref(Len(h) + 1)]

\* exports[key] = cfKey (line 90), on the object the name exports refers
\* to.
SetExport(h, exports, key) ==
    [h EXCEPT ![exports.n].m[key] = Str(<<CamelCase[key]>>)]

\* The props and exports arguments the constructor is called with, each
\* with the heap of the caller's objects: no props, an array, and three
\* property trees, all without exports; and props with an exports object.
CallerInputs ==
    { [h |-> <<>>, v |-> Undefined, e |-> Undefined],
      [h |-> << MapObj(Fields(Str(<<"a">>), Absent)),
                MapObj(Fields(Absent, Str(<<"other">>))) >>,
       v |-> Ref(1), e |-> Ref(2)],
      [h |-> <<ArrObj(<<Str(<<"a">>)>>)>>, v |-> Ref(1), e |-> Undefined],
      [h |-> << MapObj(Fields(Str(<<"a", PlaceholderOf.x>>), Ref(2))),
                MapObj(Fields(Str(<<PlaceholderOf.y, PlaceholderOf.z>>), Num(5))) >>,
       v |-> Ref(1), e |-> Undefined],
      [h |-> << MapObj(Fields(Ref(2), Undefined)),
                ArrObj(<<Str(<<PlaceholderOf.x, "b", PlaceholderOf.x>>), Ref(3)>>),
                MapObj(Fields(Str(<<PlaceholderOf.y>>), Absent)) >>,
       v |-> Ref(1), e |-> Undefined],
      [h |-> << MapObj(Fields(Str(<<"a">>), Ref(2))),
                ArrObj(<<Num(1), Str(<<"b">>)>>) >>,
       v |-> Ref(1), e |-> Undefined] }

\* The template type arguments: an empty one is refused.
TypeArgs == {<<>>, <<"T">>}

\* No template constructed yet; the record of a template keeps, next to
\* the fields of the object, the props argument and the tree copied from
\* it at construction.
NoTemplate ==
    [state |-> "none", key |-> "", resourceType |-> <<>>, properties |-> Undefined,
     exports |-> Undefined, callerProps |-> Undefined, callerExports |-> Undefined,
     mode |-> "verbatim", initial |-> {}, given |-> [props |-> {}, exports |-> {}],
     edited |-> FALSE]

\* What the last call on the template returned: the call, its arguments,
\* the property tree before it and the value returned.
NoCall ==
    [op |-> "none", path |-> <<>>, def |-> "none", before |-> {},
     handle |-> Undefined, thrown |-> FALSE, again |-> FALSE,
     prevHandle |-> Undefined]

(***************************************************************************)
(* MethodTemplate: the two response lists of the properties, each a        *)
(* sequence of response objects.                                           *)
(***************************************************************************)
\* An entry of Integration.IntegrationResponses and one of MethodResponses;
\* "undefined" stands for a SelectionPattern that is undefined or not set.
IntegrationResponse(code, pattern, templates) ==
    [StatusCode |-> code, SelectionPattern |-> pattern, ResponseTemplates |-> templates]
MethodResponse(code, models) == [StatusCode |-> code, ResponseModels |-> models]

\* The lists setDefaultIntegrationResponses builds: the four error codes
\* with their patterns, then 200.
DefaultErrors ==
    << [code |-> "400", pattern |-> "\\[((SchemaError)|(BadRequest))\\].*"],
       [code |-> "403", pattern |-> "\\[Unauthorized\\].*"],
       [code |-> "404", pattern |-> "\\[NotFound\\].*"],
       [code |-> "500", pattern |-> "\\[Error\\].*"] >>
DefaultIntegrationResponses ==
    [i \in 1..Len(DefaultErrors) |->
        IntegrationResponse(DefaultErrors[i].code, DefaultErrors[i].pattern, TRUE)]
    \o <<IntegrationResponse("200", "undefined", TRUE)>>
DefaultMethodResponses ==
    [i \in 1..Len(DefaultErrors) |-> MethodResponse(DefaultErrors[i].code, TRUE)]
    \o <<MethodResponse("200", FALSE)>>

\* The statusCode and selectionPattern arguments tried; the empty status
\* code is refused.
StatusCodes == {"", "200", "404", "418"}
SelectionPatterns == {"undefined", "P.*", "Q.*"}

\* A find that finds nothing.
FindResponseNever(list, code) == 0

\* list.find((item) => item.StatusCode === statusCode): the index of the
\* first such item, 0 when there is none.
FindResponse(list, code) ==
    IF \A i \in 1..Len(list) : list[i].StatusCode # code THEN 0
    ELSE CHOOSE i \in 1..Len(list) :
            /\ list[i].StatusCode = code
            /\ \A j \in 1..(i - 1) : list[j].StatusCode # code

\* No call made on the MethodTemplate yet.
NoMethodCall ==
    [op |-> "none", code |-> "", pattern |-> "undefined", thrown |-> FALSE,
     before |-> <<>>]

\* The MethodTemplate after its constructor: both lists are empty.
NewMethodTemplate ==
    [IntegrationResponses |-> <<>>, MethodResponses |-> <<>>, last |-> NoMethodCall]

\* Identifiers of entries and of directories.
EntryIds == 1..MaxEntries
DirIds == 0..MaxEntries

VARIABLES
    tree,       \* the entries on disk: tree[e] = [parent, kind]
    rootList,   \* whether listing the root directory succeeds
    callerBag,  \* the dataBag argument the caller gave the root builder
    heap,       \* the contents of the data bag objects
    builder,    \* builder[d]: the TemplateBuilder of directory d
    entry,      \* entry[e]: the promises of _generateTemplates(e)
    uncaught,   \* exceptions thrown out of an fs callback
    unhandled,  \* rejections of promises nobody handles
    halted,     \* the process ended on an uncaught exception
    scope,      \* DirInfo calls: the DirInfo object under test
    ret,        \* DirInfo calls: the last call and what it returned
    objs,       \* Template calls: the heap of objects and arrays
    template,   \* Template calls: the Template object under test
    outs,       \* Template calls: what each finalize call returned
    call,       \* Template calls: the last call and what it returned
    method      \* MethodTemplate calls: the response lists and the last call

vars == <<tree, rootList, callerBag, heap, builder, entry, uncaught, unhandled,
          halted, scope, ret, objs, template, outs, call, method>>

buildVars == <<tree, rootList, callerBag, heap, builder, entry, uncaught,
               unhandled, halted>>

dirVars == <<scope, ret>>

tplVars == <<objs, template, outs, call>>

mtVars == <<method>>

\* The state in which no Template is ever constructed.
NoTemplateCalls ==
    /\ objs = <<>>
    /\ template = NoTemplate
    /\ outs = <<>>
    /\ call = NoCall

\* The entries of the tree.
Entries == 1..Len(tree)

\* The entries of directory d, in listing order.
Children(d) == {e \in Entries : tree[e].parent = d}

\* The name readdir reports for entry e.
Name(e) == <<<<"a", "b", "c", "d", "e", "f">>[e]>> \o tree[e].kind.ext

\* Whether listing directory d succeeds.
ListOk(d) == IF d = 0 THEN rootList = "ok" ELSE tree[d].kind.list = "ok"

\* The trees of at most MaxEntries entries: every entry lies in the root or
\* in an earlier entry that is a directory.
Trees ==
    UNION { {t \in [1..n -> [parent : 0..(n - 1), kind : Kinds]] :
               \A e \in 1..n :
                  /\ t[e].parent < e
                  /\ t[e].parent > 0 => t[t[e].parent].kind.stat = "dir"} :
            n \in 0..MaxEntries }

(***************************************************************************)
(* Values.                                                                 *)
(***************************************************************************)
NoErr == <<>>
ReaddirError(d) == <<"readdir", d>>
StatError(e) == <<"stat", e>>
RequireError(e) == <<"require", e>>
GeneratorError(e) == <<"generator", e>>

\* The k-th template object of generator file e.
Doc(e, k) == <<"doc", e, k>>

\* The promise object a generator function of file e returned.
PendingOf(e) == <<"promise", e, 0>>

IsDoc(x) == x[1] = "doc"

\* A promise: pending, fulfilled with a value, or rejected with a reason.
Pending == [state |-> "pending", value |-> <<>>, reason |-> NoErr]
Fulfilled(v) == [state |-> "fulfilled", value |-> v, reason |-> NoErr]
Rejected(r) == [state |-> "rejected", value |-> <<>>, reason |-> r]

\* The data bag values a caller may pass: an object, an array, nothing.
CallerRef == <<"caller">>
FreshRef(d) == <<"fresh", d>>
BagRefs == {CallerRef} \cup {FreshRef(d) : d \in DirIds}
CallerBags ==
    {[type |-> "object", ref |-> CallerRef], [type |-> "array", ref |-> CallerRef],
     [type |-> "undefined", ref |-> <<>>]}

(***************************************************************************)
(* TemplateBuilder (lib/template-builder.js).                              *)
(***************************************************************************)
\* The relative path of the root DirInfo the caller builds.
RootRelPath == <<"r">>

\* A data bag value that is no object.
NoBag == [type |-> "undefined", ref |-> <<>>]

\* The builder of a directory for which no TemplateBuilder was constructed.
NoBuilder ==
    [state |-> "none", promise |-> Pending, all |-> Pending, templateList |-> <<>>,
     dataBag |-> NoBag, dirInfo |-> NoDirInfo]

\* The promises of an entry for which _generateTemplates was not called.
NoArg == [called |-> FALSE, scope |-> NoDirInfo, bag |-> NoBag]
NoEntry ==
    [stat |-> "none", p |-> Pending, q |-> Pending, childThen |-> FALSE, arg |-> NoArg]

\* The constructor's data bag check with every argument replaced by a new
\* object.
DataBagAlwaysNew(dataBag, d) == [type |-> "object", ref |-> FreshRef(d)]

\* constructor, lines 24-26: anything but a non-array object is replaced
\* by a new empty object (the one builder d allocates).
DataBagOf(dataBag, d) ==
    IF dataBag.type = "undefined" \/ dataBag.type = "array" \/ dataBag.type # "object"
    THEN [type |-> "object", ref |-> FreshRef(d)]
    ELSE dataBag

\* The heap after the constructor of builder d received dataBag: a new
\* empty object exists when the constructor made one.
HeapAfterNew(h, dataBag, d) ==
    IF DataBagOf(dataBag, d) = dataBag THEN h
    ELSE [h EXCEPT ![FreshRef(d)] = [alloc |-> TRUE, keys |-> {}]]

\* new TemplateBuilder(dirInfo, dataBag), then build() up to the call of
\* fs.readdir (lines 105-115).
NewBuilderListing(dirInfo, dataBag, d) ==
    [NoBuilder EXCEPT !.state = "listing", !.dirInfo = dirInfo,
                      !.dataBag = DataBagOf(dataBag, d)]

\* The value a module of the given shape finally yields for file e.
ShapeValue(m, e) ==
    IF m.isArray THEN [tag |-> "array", items |-> [k \in 1..m.n |-> Doc(e, k)]]
    ELSE [tag |-> "object", items |-> <<Doc(e, 1)>>]

\* require(fileAbsPath) for generator file e (line 72).
Require(m, e) ==
    IF m.callable THEN [tag |-> "function", items |-> <<>>] ELSE ShapeValue(m, e)

\* templates(this._dirInfo, this._dataBag) (line 76): the value, or a
\* promise of it.
Invoke(m, e) ==
    IF m.pending THEN [tag |-> "promise", items |-> <<PendingOf(e)>>]
    ELSE ShapeValue(m, e)

\* Lines 79-81 with the instanceof test left out: every value, an array
\* too, becomes the only element of a new array.
AsArrayAlwaysWrap(v) == <<v.items>>

\* Lines 79-81: an array is passed on, anything else becomes the only
\* element of a new array.
AsArray(v) == IF v.tag = "array" THEN v.items ELSE <<v.items[1]>>

\* Lines 72-87: the array _generateTemplates resolves with for generator
\* file e, or the error thrown on the way.
LoadTemplates(m, e) ==
    IF m.load = "throws" THEN [thrown |-> TRUE, err |-> RequireError(e), templates |-> <<>>]
    ELSE IF m.callable /\ m.call = "throws"
         THEN [thrown |-> TRUE, err |-> GeneratorError(e), templates |-> <<>>]
    ELSE LET v == IF Require(m, e).tag = "function" THEN Invoke(m, e) ELSE Require(m, e)
         IN  [thrown |-> FALSE, err |-> NoErr, templates |-> AsArray(v)]

\* addtemplates with the list replaced instead of appended to.
AddTemplatesReplace(templateList, templates) == templates

\* addtemplates that pushes the templates of a block last to first.
AddTemplatesReversed(templateList, templates) ==
    templateList \o [i \in 1..Len(templates) |-> templates[Len(templates) + 1 - i]]

\* addtemplates (lines 109-113): every template is pushed onto the list.
AddTemplates(templateList, templates) == templateList \o templates

\* The entries the readdir callback starts when only the first listed
\* entry is dispatched.
DispatchedFirstOnly(d) ==
    IF Children(d) = {} THEN {} ELSE {CHOOSE e \in Children(d) : \A f \in Children(d) : e <= f}

\* The entries for which the readdir callback calls _generateTemplates
\* (data.forEach, lines 126-130): every listed entry.
Dispatched(d) == Children(d)

\* The state in which no DirInfo call has been made.
NoRet == [op |-> "none", on |-> NoDirInfo, arg |-> <<>>, val |-> <<>>, num |-> 0]

\* The state after the caller constructed the root DirInfo and the root
\* TemplateBuilder, before build() is called.
Init ==
    /\ tree \in Trees
    /\ rootList \in {"ok", "err"}
    /\ callerBag \in CallerBags
    /\ heap = HeapAfterNew(
                 [r \in BagRefs |->
                     IF r = CallerRef /\ callerBag.type # "undefined"
                     THEN [alloc |-> TRUE, keys |-> {"k"}]
                     ELSE [alloc |-> FALSE, keys |-> {}]],
                 callerBag, 0)
    /\ builder = [d \in DirIds |->
                     IF d = 0
                     THEN [NoBuilder EXCEPT !.state = "constructed",
                                            !.dirInfo = NewDirInfo(TemplateRoot, RootRelPath),
                                            !.dataBag = DataBagOf(callerBag, 0)]
                     ELSE NoBuilder]
    /\ entry = [e \in EntryIds |-> NoEntry]
    /\ uncaught = {}
    /\ unhandled = {}
    /\ halted = FALSE
    /\ scope = NoDirInfo
    /\ ret = NoRet
    /\ NoTemplateCalls
    /\ method = NewMethodTemplate

\* build() of the root builder, up to the call of fs.readdir.
Build ==
    /\ ~halted
    /\ builder[0].state = "constructed"
    /\ builder' = [builder EXCEPT ![0].state = "listing"]
    /\ UNCHANGED <<tree, rootList, callerBag, heap, entry, uncaught, unhandled, halted>>
    /\ UNCHANGED <<dirVars, tplVars, mtVars>>

\* The readdir callback without the return of line 121: the entries are
\* dispatched after the rejection too.
ReaddirCallbackNoReturn(d) ==
    /\ ~halted
    /\ builder[d].state = "listing"
    /\ builder' = [builder EXCEPT
          ![d].state = IF ListOk(d) THEN "dispatched" ELSE "failed",
          ![d].promise = IF ListOk(d) THEN @ ELSE Rejected(ReaddirError(d)),
          ![d].all = IF Dispatched(d) = {} THEN Fulfilled(<<>>) ELSE Pending]
    /\ entry' = [e \in EntryIds |->
          IF e \in Dispatched(d) THEN [entry[e] EXCEPT !.stat = "pending"] ELSE entry[e]]
    /\ UNCHANGED <<tree, rootList, callerBag, heap, uncaught, unhandled, halted>>
    /\ UNCHANGED <<dirVars, tplVars, mtVars>>

\* The callback of fs.readdir for directory d (lines 115-138): on an error
\* the build promise is rejected and nothing else happens; otherwise
\* _generateTemplates is called for every listed entry, which starts its
\* fs.stat, and Promise.all is set up over the per-entry promises.
ReaddirCallback(d) ==
    /\ ~halted
    /\ builder[d].state = "listing"
    /\ IF ~ListOk(d)
       THEN /\ builder' = [builder EXCEPT ![d].state = "failed",
                                          ![d].promise = Rejected(ReaddirError(d))]
            /\ UNCHANGED entry
       ELSE /\ builder' = [builder EXCEPT
                  ![d].state = "dispatched",
                  ![d].all = IF Dispatched(d) = {} THEN Fulfilled(<<>>) ELSE Pending]
            /\ entry' = [e \in EntryIds |->
                  IF e \in Dispatched(d) THEN [entry[e] EXCEPT !.stat = "pending"]
                  ELSE entry[e]]
    /\ UNCHANGED <<tree, rootList, callerBag, heap, uncaught, unhandled, halted>>
    /\ UNCHANGED <<dirVars, tplVars, mtVars>>

\* The callback of fs.stat for entry e (lines 56-93).  An exception thrown
\* by require() or by the generator function leaves the callback uncaught:
\* the per-entry promise is not settled, and the process either ends or,
\* with an uncaughtException handler installed, goes on.
StatCallback(e) ==
    /\ ~halted
    /\ entry[e].stat = "pending"
    /\ LET d == tree[e].parent
           k == tree[e].kind
           b == builder[d]
           fileAbsPath == GetFilePath(b.dirInfo, Name(e))
           loaded == LoadTemplates(k.mod, e)
           arg == IF k.mod.load = "ok" /\ k.mod.callable
                  THEN [called |-> TRUE, scope |-> b.dirInfo, bag |-> b.dataBag]
                  ELSE NoArg
       IN  IF k.stat = "err"
           THEN /\ entry' = [entry EXCEPT ![e].stat = "done",
                                          ![e].p = Rejected(StatError(e))]
                /\ UNCHANGED <<builder, heap, uncaught, halted>>
           ELSE IF k.stat = "dir"
           THEN /\ builder' = [builder EXCEPT
                      ![e] = NewBuilderListing(GetChildDir(b.dirInfo, Name(e)), b.dataBag, e)]
                /\ heap' = HeapAfterNew(heap, b.dataBag, e)
                /\ entry' = [entry EXCEPT ![e].stat = "done"]
                /\ UNCHANGED <<uncaught, halted>>
           ELSE IF PathExt(fileAbsPath) = JsExt
           THEN IF loaded.thrown
                THEN /\ entry' = [entry EXCEPT ![e].stat = "done", ![e].arg = arg]
                     /\ uncaught' = uncaught \cup {loaded.err}
                     /\ halted' \in BOOLEAN
                     /\ UNCHANGED <<builder, heap>>
                ELSE /\ entry' = [entry EXCEPT ![e].stat = "done", ![e].arg = arg,
                                               ![e].p = Fulfilled(loaded.templates)]
                     /\ UNCHANGED <<builder, heap, uncaught, halted>>
           ELSE /\ entry' = [entry EXCEPT ![e].stat = "done", ![e].p = Fulfilled(<<>>)]
                /\ UNCHANGED <<builder, heap, uncaught, halted>>
    /\ UNCHANGED <<tree, rootList, callerBag, unhandled>>
    /\ UNCHANGED <<dirVars, tplVars, mtVars>>

\* The reaction of childBuilder.build().then(resolve) (line 68) once the
\* child's build promise is settled: a fulfilled child resolves the
\* per-entry promise with the child's list; a rejected child only rejects
\* the promise then() returned, which nobody handles.
ChildThen(e) ==
    /\ ~halted
    /\ entry[e].stat = "done"
    /\ tree[e].kind.stat = "dir"
    /\ ~entry[e].childThen
    /\ builder[e].promise.state # "pending"
    /\ IF builder[e].promise.state = "fulfilled"
       THEN /\ entry' = [entry EXCEPT ![e].childThen = TRUE,
                                      ![e].p = Fulfilled(builder[e].promise.value)]
            /\ UNCHANGED unhandled
       ELSE /\ entry' = [entry EXCEPT ![e].childThen = TRUE]
            /\ unhandled' = unhandled \cup {builder[e].promise.reason}
    /\ UNCHANGED <<tree, rootList, callerBag, heap, builder, uncaught, halted>>
    /\ UNCHANGED <<dirVars, tplVars, mtVars>>

\* A Promise.all that is fulfilled as soon as one of its promises is.
OthersFulfilledAlways(d, e) == TRUE

\* Promise.all(promises) (line 132) at the moment the promise of entry e is
\* fulfilled: whether the promises of all other entries of d are fulfilled.
OthersFulfilled(d, e) ==
    \A f \in Dispatched(d) \ {e} : entry[f].q.state = "fulfilled"

\* The reaction of _generateTemplates(file).then(addtemplates) (lines
\* 127-128) once the per-entry promise is settled, and what Promise.all
\* (line 132) makes of the promise then() returned: fulfilled when it is
\* the last one, rejected with the first rejection.  The promise of
\* Promise.all(...).then(...) has no rejection handler.
EntryThen(e) ==
    /\ ~halted
    /\ entry[e].p.state # "pending"
    /\ entry[e].q.state = "pending"
    /\ LET d == tree[e].parent
           othersDone == OthersFulfilled(d, e)
       IN  IF entry[e].p.state = "fulfilled"
           THEN /\ entry' = [entry EXCEPT ![e].q = Fulfilled(<<>>)]
                /\ builder' = [builder EXCEPT
                      ![d].templateList = AddTemplates(@, entry[e].p.value),
                      ![d].all = IF othersDone /\ @.state = "pending"
                                 THEN Fulfilled(<<>>) ELSE @]
                /\ UNCHANGED unhandled
           ELSE /\ entry' = [entry EXCEPT ![e].q = Rejected(entry[e].p.reason)]
                /\ builder' = [builder EXCEPT
                      ![d].all = IF @.state = "pending"
                                 THEN Rejected(entry[e].p.reason) ELSE @]
                /\ unhandled' = IF builder[d].all.state = "pending"
                                THEN unhandled \cup {entry[e].p.reason}
                                ELSE unhandled
    /\ UNCHANGED <<tree, rootList, callerBag, heap, uncaught, halted>>
    /\ UNCHANGED <<dirVars, tplVars, mtVars>>

\* The reaction of Promise.all(promises).then(...) (lines 132-137): the
\* build promise of directory d is resolved with templateList.
AllThen(d) ==
    /\ ~halted
    /\ builder[d].state = "dispatched"
    /\ builder[d].all.state = "fulfilled"
    /\ builder[d].promise.state = "pending"
    /\ builder' = [builder EXCEPT ![d].promise = Fulfilled(builder[d].templateList)]
    /\ UNCHANGED <<tree, rootList, callerBag, heap, entry, uncaught, unhandled, halted>>
    /\ UNCHANGED <<dirVars, tplVars, mtVars>>

Next ==
    \/ Build
    \/ \E d \in DirIds : ReaddirCallback(d)
    \/ \E e \in EntryIds : StatCallback(e)
    \/ \E e \in EntryIds : ChildThen(e)
    \/ \E e \in EntryIds : EntryThen(e)
    \/ \E d \in DirIds : AllThen(d)

Spec == Init /\ [][Next]_vars

(***************************************************************************)
(* DirInfo calls: a DirInfo is constructed from a relative path, children  *)
(* are derived from it and its token methods are called.                   *)
(***************************************************************************)
\* The characters of the paths and token values tried.
Chars == {"a", "b", ".", JOIN_CHARACTER, Sep}

\* The strings of at most n characters.
StringsUpTo(n) == UNION {[1..k -> Chars] : k \in 0..n}

\* The relative paths a DirInfo is constructed with (the empty one is
\* refused by the constructor).
RelPaths == StringsUpTo(MaxPathLen)

\* The token values and child directory names passed to the methods.
TokenValues == {<<>>, <<"R">>, <<"a", JOIN_CHARACTER>>}
ChildNames ==
    {<<>>, <<"a">>, <<"b">>, <<"c">>, <<JOIN_CHARACTER>>, <<"b", Sep>>, <<".", ".">>}

\* The state in which the loader is never used.
InitDir ==
    /\ tree = <<>>
    /\ rootList = "ok"
    /\ callerBag = NoBag
    /\ heap = [r \in BagRefs |-> [alloc |-> FALSE, keys |-> {}]]
    /\ builder = [d \in DirIds |-> NoBuilder]
    /\ entry = [e \in EntryIds |-> NoEntry]
    /\ uncaught = {}
    /\ unhandled = {}
    /\ halted = FALSE
    /\ scope = NoDirInfo
    /\ ret = NoRet
    /\ NoTemplateCalls
    /\ method = NewMethodTemplate

\* Whether a DirInfo object exists.
HasScope == scope # NoDirInfo

\* new DirInfo(TemplateRoot, relPath): the one object a behaviour follows.
Construct(relPath) ==
    /\ ret = NoRet
    /\ scope' = IF NewDirInfo(TemplateRoot, relPath) = ThrownDirInfo THEN scope
                ELSE NewDirInfo(TemplateRoot, relPath)
    /\ ret' = [NoRet EXCEPT !.op = "new", !.arg = relPath,
                            !.val = IF NewDirInfo(TemplateRoot, relPath) = ThrownDirInfo
                                    THEN Thrown ELSE <<>>]
    /\ UNCHANGED <<buildVars, tplVars, mtVars>>

\* scope.level
CallLevel ==
    /\ HasScope
    /\ ret' = [NoRet EXCEPT !.op = "level", !.on = scope, !.num = Level(scope)]
    /\ UNCHANGED <<scope>>
    /\ UNCHANGED <<buildVars, tplVars, mtVars>>

\* scope.getToken(tokenValue)
CallGetToken(tokenValue) ==
    /\ HasScope
    /\ ret' = [NoRet EXCEPT !.op = "getToken", !.on = scope, !.arg = tokenValue,
                            !.val = GetToken(scope, tokenValue)]
    /\ UNCHANGED <<scope>>
    /\ UNCHANGED <<buildVars, tplVars, mtVars>>

\* scope.getParentToken(tokenValue)
CallGetParentToken(tokenValue) ==
    /\ HasScope
    /\ ret' = [NoRet EXCEPT !.op = "getParentToken", !.on = scope, !.arg = tokenValue,
                            !.val = GetParentToken(scope, tokenValue)]
    /\ UNCHANGED <<scope>>
    /\ UNCHANGED <<buildVars, tplVars, mtVars>>

\* scope.getRootToken(tokenValue)
CallGetRootToken(tokenValue) ==
    /\ HasScope
    /\ ret' = [NoRet EXCEPT !.op = "getRootToken", !.on = scope, !.arg = tokenValue,
                            !.val = GetRootToken(scope, tokenValue)]
    /\ UNCHANGED <<scope>>
    /\ UNCHANGED <<buildVars, tplVars, mtVars>>

\* scope = scope.getChildDir(dir); children are derived while the relative
\* path stays within MaxPathLen + 2 characters.
CallGetChildDir(dir) ==
    /\ HasScope
    /\ Len(scope.relPath) + Len(dir) < MaxPathLen + 2
    /\ scope' = IF GetChildDir(scope, dir) = ThrownDirInfo THEN scope ELSE GetChildDir(scope, dir)
    /\ ret' = [NoRet EXCEPT !.op = "getChildDir", !.on = scope, !.arg = dir,
                            !.val = IF GetChildDir(scope, dir) = ThrownDirInfo THEN Thrown ELSE <<>>]
    /\ UNCHANGED <<buildVars, tplVars, mtVars>>

\* A value inside a template literal: null becomes the text "null".
TemplateText(v) == IF v = Null THEN <<"n", "u", "l", "l">> ELSE v

\* `<% ${v} %>`: the placeholder that names v.
PlaceholderFor(v) == <<"<", "%", " ">> \o TemplateText(v) \o <<" ", "%", ">">>

\* The token values resource-utils passes to the DirInfo.
ApiToken == <<"A", "P", "I">>
ResToken == <<"R", "E", "S">>

\* resourceUtils.getParentResource(dirInfo): the key of the object
\* returned and the placeholder in it.
GetParentResource(dirInfo) ==
    IF Level(dirInfo) = 2
    THEN [key |-> <<"Fn::GetAtt">>, text |-> PlaceholderFor(GetRootToken(dirInfo, ApiToken))]
    ELSE [key |-> <<"Ref">>, text |-> PlaceholderFor(GetParentToken(dirInfo, ResToken))]

\* resourceUtils.getParentResource(scope); the key returned is kept as the
\* argument of the call record, the placeholder as its value.
CallGetParentResource ==
    /\ HasScope
    /\ ret' = [NoRet EXCEPT !.op = "getParentResource", !.on = scope,
                            !.arg = GetParentResource(scope).key,
                            !.val = GetParentResource(scope).text]
    /\ UNCHANGED <<scope>>
    /\ UNCHANGED <<buildVars, tplVars, mtVars>>

NextDir ==
    \/ \E relPath \in RelPaths : Construct(relPath)
    \/ CallLevel
    \/ \E tokenValue \in TokenValues : CallGetToken(tokenValue)
    \/ \E tokenValue \in TokenValues : CallGetParentToken(tokenValue)
    \/ \E tokenValue \in TokenValues : CallGetRootToken(tokenValue)
    \/ \E dir \in ChildNames : CallGetChildDir(dir)
    \/ CallGetParentResource

DirSpec == InitDir /\ [][NextDir]_vars

(***************************************************************************)
(* Properties of the loader.                                               *)
(***************************************************************************)
\* Every started fs callback has fired and every promise reaction has run.
Settled ==
    /\ builder[0].state # "constructed"
    /\ \A d \in DirIds :
          /\ builder[d].state # "listing"
          /\ ~(/\ builder[d].state = "dispatched"
               /\ builder[d].all.state = "fulfilled"
               /\ builder[d].promise.state = "pending")
    /\ \A e \in Entries :
          /\ entry[e].stat # "pending"
          /\ ~(entry[e].p.state # "pending" /\ entry[e].q.state = "pending")
          /\ ~(/\ entry[e].stat = "done"
               /\ tree[e].kind.stat = "dir"
               /\ ~entry[e].childThen
               /\ builder[e].promise.state # "pending")

\* The elements of a sequence.
Range(seq) == {seq[i] : i \in 1..Len(seq)}

\* The multiset of the elements of a sequence.
BagOfSeq(seq) == [x \in Range(seq) |-> Cardinality({i \in 1..Len(seq) : seq[i] = x})]

\* The entries of directory d as a sequence in listing order.
RECURSIVE Listing(_, _)
Listing(d, from) ==
    IF from > Len(tree) THEN <<>>
    ELSE IF tree[from].parent = d THEN <<from>> \o Listing(d, from + 1)
    ELSE Listing(d, from + 1)

\* What a sequential depth-first walk collects below directory d: the
\* entries in listing order, a directory's whole walk in place, a generator
\* file's array, nothing for any other entry.
RECURSIVE Walk(_)
RECURSIVE WalkEntries(_)
WalkEntries(es) ==
    IF es = <<>> THEN <<>>
    ELSE LET e == Head(es)
             k == tree[e].kind
             mine == IF k.stat = "dir" THEN Walk(e)
                     ELSE IF k.stat = "file" /\ k.ext = JsExt /\ ~LoadTemplates(k.mod, e).thrown
                          THEN LoadTemplates(k.mod, e).templates
                          ELSE <<>>
         IN  mine \o WalkEntries(Tail(es))

Walk(d) == WalkEntries(Listing(d, 1))

\* The entries in the subtree of directory d.
RECURSIVE Below(_)
Below(d) == Children(d) \cup UNION {Below(e) : e \in {c \in Children(d) : tree[c].kind.stat = "dir"}}

\* Every listing, stat, load and generator call needed to build d succeeds.
SubtreeSucceeds(d) ==
    /\ ListOk(d)
    /\ \A e \in Below(d) :
          LET k == tree[e].kind
          IN  /\ k.stat # "err"
              /\ k.stat = "dir" => k.list = "ok"
              /\ (k.stat = "file" /\ k.ext = JsExt) => ~LoadTemplates(k.mod, e).thrown

\* Entry e is a file without the generator extension.
Unrecognized(e) == tree[e].kind.stat = "file" /\ tree[e].kind.ext # JsExt

\* Entry e is a generator file that yields an empty array, as a static
\* value or as the return value of its function.
EmptyGenerator(e) ==
    LET k == tree[e].kind
    IN  /\ k.stat = "file" /\ k.ext = JsExt
        /\ k.mod.load = "ok" /\ k.mod.call # "throws" /\ ~k.mod.pending
        /\ k.mod.isArray /\ k.mod.n = 0

\* C1: if the stat of an entry of directory d fails, then, once every
\* started callback has fired, the build promise of d is rejected with the
\* first failure detected (the reason Promise.all was rejected with).
C1_StatFailureRejectsBuild ==
    \A e \in Entries :
       (Settled /\ ~halted /\ entry[e].p = Rejected(StatError(e)))
          => LET d == tree[e].parent
             IN  builder[d].promise = Rejected(builder[d].all.reason)

\* C2: if the build promise of child builder e is rejected, then, once
\* every started callback has fired, the parent's per-entry promise of e
\* and the parent's build promise are rejected with the same error.
C2_ChildFailurePropagates ==
    \A e \in Entries :
       (Settled /\ ~halted /\ builder[e].promise.state = "rejected")
          => /\ entry[e].p = Rejected(builder[e].promise.reason)
             /\ builder[tree[e].parent].promise = Rejected(builder[e].promise.reason)

\* C3: if require() of a generator file or the generator function throws,
\* then in the end the root build promise is rejected with that error (and
\* so is not fulfilled with a list).
C3_GeneratorThrowRejectsRoot ==
    \A e \in Entries :
       ((Settled \/ halted) /\ {RequireError(e), GeneratorError(e)} \cap uncaught # {})
          => /\ builder[0].promise.state = "rejected"
             /\ builder[0].promise.reason \in {RequireError(e), GeneratorError(e)}

\* C4: when listing directory d fails, build() of d is rejected with the
\* listing error as soon as the callback fires, is never fulfilled, and no
\* entry of d is ever dispatched: no stat, no child builder, no generator
\* call.
C4_ListingFailure ==
    \A d \in DirIds :
       (builder[d].state # "none" /\ ~ListOk(d))
          => /\ builder[d].state \in {"constructed", "listing", "failed"}
             /\ builder[d].state = "failed"
                   => builder[d].promise = Rejected(ReaddirError(d))
             /\ builder[d].state # "failed" => builder[d].promise = Pending
             /\ builder[d].templateList = <<>>
             /\ \A e \in Children(d) : entry[e] = NoEntry /\ builder[e] = NoBuilder

\* C4: a subdirectory that has entries on disk, and whose listing failed.
C4_Witness ==
    \E d \in DirIds :
       d > 0 /\ builder[d].state = "failed" /\ ~ListOk(d) /\ Children(d) # {}

\* C5: every element of a list a build promise is fulfilled with is a
\* template, and the per-entry promise of every generator file is fulfilled
\* with exactly the templates the file finally yields, also when its
\* function returns them as a pending computation.
C5_ResultsAreDocuments ==
    /\ \A d \in DirIds :
          builder[d].promise.state = "fulfilled"
             => \A i \in 1..Len(builder[d].promise.value) : IsDoc(builder[d].promise.value[i])
    /\ \A e \in Entries :
          (tree[e].kind.stat = "file" /\ entry[e].p.state = "fulfilled" /\ ~Unrecognized(e))
             => entry[e].p.value = ShapeValue(tree[e].kind.mod, e).items

C7_AllStatsStartedFirst ==
    \A e \in Entries :
       entry[e].stat = "done"
          => \A f \in Children(tree[e].parent) : entry[f].stat # "none"

\* C7: one entry's stat callback has fired while a sibling's is still
\* outstanding.
C7_Witness ==
    \E e, f \in Entries :
       /\ e # f /\ tree[e].parent = tree[f].parent
       /\ entry[e].stat = "done" /\ entry[f].stat = "pending"

\* C8: a directory that lists no entry, or only unrecognized files and
\* generators yielding an empty array, is never rejected, collects nothing,
\* none of its per-entry promises is rejected, and once all callbacks have
\* fired its build promise is fulfilled with the empty list.
C8_EmptyResult ==
    \A d \in DirIds :
       (/\ builder[d].state # "none"
        /\ ListOk(d)
        /\ \A e \in Children(d) : Unrecognized(e) \/ EmptyGenerator(e))
          => /\ builder[d].promise.state # "rejected"
             /\ builder[d].templateList = <<>>
             /\ \A e \in Children(d) :
                   /\ entry[e].p.state # "rejected"
                   /\ entry[e].p.value = <<>>
             /\ builder[d].promise.state = "fulfilled" => builder[d].promise.value = <<>>
             /\ (Settled /\ ~halted) => builder[d].promise = Fulfilled(<<>>)

\* C8: the root lists an unrecognized file and a generator yielding an
\* empty array, and its build is fulfilled.
C8_Witness ==
    /\ builder[0].promise = Fulfilled(<<>>)
    /\ \E e, f \in Children(0) : Unrecognized(e) /\ EmptyGenerator(f)

\* C8: an empty subdirectory's build is fulfilled.
C8_WitnessEmptyDir ==
    \E d \in DirIds : d > 0 /\ Children(d) = {} /\ builder[d].promise = Fulfilled(<<>>)

\* C9: every builder holds, and every generator function is called with,
\* the data bag object the root builder holds, which is the caller's when
\* the caller passed a non-array object; no builder but the root ever
\* makes a new object, and the contents of the data bag objects are what
\* they were at construction.
C9_SameDataBagNeverWritten ==
    /\ callerBag.type = "object" => builder[0].dataBag = callerBag
    /\ \A d \in DirIds : builder[d].state # "none" => builder[d].dataBag = builder[0].dataBag
    /\ \A e \in Entries : entry[e].arg.called => entry[e].arg.bag = builder[0].dataBag
    /\ \A d \in DirIds : d > 0 => ~heap[FreshRef(d)].alloc
    /\ \A r \in BagRefs :
          heap[r].alloc => heap[r].keys = IF r = CallerRef THEN {"k"} ELSE {}

\* C9: a generator function in a subdirectory was called with the
\* caller's object.
C9_Witness ==
    \E e \in Entries :
       /\ tree[e].parent > 0
       /\ entry[e].arg.called
       /\ entry[e].arg.bag.ref = CallerRef

\* C9: the same with the object the root builder made for a caller that
\* passed an array.
C9_WitnessFresh ==
    \E e \in Entries :
       /\ tree[e].parent > 0
       /\ entry[e].arg.called
       /\ callerBag.type = "array"
       /\ entry[e].arg.bag.ref = FreshRef(0)

(***************************************************************************)
(* Properties of DirInfo.                                                  *)
(***************************************************************************)
\* C10: for a non-empty token value getParentToken returns null exactly
\* when the level is 1, and otherwise the tokens before the last one and
\* the token value, joined by the separator.
C10_ParentToken ==
    (ret.op = "getParentToken" /\ ret.arg # <<>>)
       => LET tokens == ret.on.pathTokens
          IN  /\ ret.val = Null <=> Level(ret.on) = 1
              /\ Level(ret.on) # 1
                    => \E n \in 1..Len(tokens) :
                          /\ n = Len(tokens) - 1
                          /\ ret.val = Join(Append([i \in 1..n |-> tokens[i]], ret.arg),
                                            JOIN_CHARACTER)

\* C10: getParentToken was called on a scope of level 3 and returned a
\* token.
C10_Witness ==
    /\ ret.op = "getParentToken"
    /\ ret.arg # <<>>
    /\ Level(ret.on) = 3
    /\ ret.val # Null
    /\ ret.on.pathTokens[1] # <<>>

\* C10: getParentToken returned null.
C10_WitnessNull ==
    ret.op = "getParentToken" /\ ret.arg # <<>> /\ ret.val = Null

\* The number of separators in a string.
CountSep(str) == Cardinality({i \in 1..Len(str) : str[i] = Sep})

\* C11: the level of every scope, constructed directly or derived by
\* getChildDir, is the number of pieces the separators cut its relative
\* path into (one more than the number of separators, empty pieces
\* counted); pathTokens is never empty and the level is at least 1.
C11_LevelIsSegmentCount ==
    HasScope
       => /\ Level(scope) = CountSep(scope.relPath) + 1
          /\ scope.pathTokens # <<>>
          /\ Level(scope) >= 1
          /\ ret.op = "level" => ret.num = CountSep(ret.on.relPath) + 1

\* C11: level was read on a scope of three tokens that getChildDir
\* derived.
C11_Witness ==
    /\ ret.op = "level"
    /\ ret.num = 3
    /\ ret.on.relPath = <<"a", Sep, "b", Sep, "c">>

\* A token that names a directory: not empty, not "." and not "..".
NameToken(t) == t # <<>> /\ t # <<".">> /\ t # <<".", ".">>

\* A child directory name: a name token without a separator.
PlainName(dir) == NameToken(dir) /\ CountSep(dir) = 0

\* A scope all of whose path tokens name a directory.
PlainScope(dirInfo) ==
    \A i \in 1..Len(dirInfo.pathTokens) : NameToken(dirInfo.pathTokens[i])

\* C12 as stated: getChildDir(s) yields a scope whose tokens are the
\* parent's tokens followed by s and whose level is the parent's plus 1.
C12_ChildAppendsToken ==
    (ret.op = "getChildDir" /\ ret.val # Thrown)
       => /\ scope.pathTokens = Append(ret.on.pathTokens, ret.arg)
          /\ Level(scope) = Level(ret.on) + 1

\* C12 as amended: for a parent whose tokens all name a directory and a
\* child name s without separator that is not ".", "..": getChildDir(s) has
\* the parent's tokens followed by s, the parent's level plus 1, and is in
\* every field the scope constructed directly from the parent's relative
\* path, the separator and s; so "a" -> "b" -> "c" is the scope of "a/b/c".
C12_ChildOfPlainScope ==
    (ret.op = "getChildDir" /\ ret.val # Thrown /\ PlainScope(ret.on) /\ PlainName(ret.arg))
       => /\ scope.pathTokens = Append(ret.on.pathTokens, ret.arg)
          /\ Level(scope) = Level(ret.on) + 1
          /\ scope = NewDirInfo(ret.on.templateRoot, ret.on.relPath \o <<Sep>> \o ret.arg)
          /\ scope.templateRoot = ret.on.templateRoot
          /\ (ret.on.relPath = <<"a", Sep, "b">> /\ ret.arg = <<"c">>)
                => scope = NewDirInfo(TemplateRoot, <<"a", Sep, "b", Sep, "c">>)

\* C12: "a" -> "b" -> "c".
C12_Witness ==
    /\ ret.op = "getChildDir"
    /\ ret.on.pathTokens = <<<<"a">>, <<"b">>>>
    /\ ret.arg = <<"c">>
    /\ scope.relPath = <<"a", Sep, "b", Sep, "c">>

\* The scopes that can be constructed beside the one followed.
OtherScopes == {NewDirInfo(TemplateRoot, p) : p \in RelPaths \ {<<>>}}

\* C13: getToken of two scopes with different path tokens differs, for
\* the same token value.
C13_TokenUnique ==
    (ret.op = "getToken" /\ ret.arg # <<>>)
       => \A other \in OtherScopes :
             other.pathTokens # ret.on.pathTokens => GetToken(other, ret.arg) # ret.val

\* C14 as stated: a scope derived by getChildDir has the getRootToken of
\* the scope it was derived from, for every token value.
C14_RootTokenKept ==
    (ret.op = "getChildDir" /\ ret.val # Thrown)
       => \A tokenValue \in TokenValues \ {<<>>} :
             GetRootToken(scope, tokenValue) = GetRootToken(ret.on, tokenValue)

\* C14 as amended: getRootToken is the first path token, the separator and
\* the token value, the same for all scopes with that first token; and a
\* scope derived by getChildDir has the getRootToken of its parent when
\* the parent's first token is neither empty nor "." and neither the
\* parent's tokens nor the child name hold a ".." segment.
C14_RootTokenOfPlainScope ==
    /\ (ret.op = "getRootToken" /\ ret.arg # <<>>)
          => /\ ret.val = Join(<<ret.on.pathTokens[1], ret.arg>>, JOIN_CHARACTER)
             /\ \A other \in OtherScopes :
                   other.pathTokens[1] = ret.on.pathTokens[1]
                      => GetRootToken(other, ret.arg) = ret.val
    /\ (/\ ret.op = "getChildDir" /\ ret.val # Thrown
        /\ ret.on.pathTokens[1] \notin {<<>>, <<".">>}
        /\ \A i \in 1..Len(ret.on.pathTokens) : ret.on.pathTokens[i] # <<".", ".">>
        /\ \A i \in 1..Len(Split(ret.arg, Sep)) : Split(ret.arg, Sep)[i] # <<".", ".">>)
          => \A tokenValue \in TokenValues \ {<<>>} :
                GetRootToken(scope, tokenValue) = GetRootToken(ret.on, tokenValue)

\* C14: getRootToken on a scope of two tokens.
C14_Witness ==
    /\ ret.op = "getRootToken"
    /\ ret.arg = <<"R">>
    /\ Level(ret.on) = 2
    /\ ret.val = <<"a", JOIN_CHARACTER, "R">>

\* C14: a child derived from a scope of two tokens.
C14_WitnessChild ==
    /\ ret.op = "getChildDir" /\ ret.val # Thrown
    /\ PlainScope(ret.on) /\ Level(ret.on) = 2 /\ Level(scope) = 3

(***************************************************************************)
(* Template calls: a Template is constructed from the caller's props, the  *)
(* caller goes on writing to its own object, and finalize is called with   *)
(* several data bags.                                                      *)
(***************************************************************************)
\* The state in which neither the loader nor a DirInfo is used.
InitTpl ==
    /\ tree = <<>>
    /\ rootList = "ok"
    /\ callerBag = NoBag
    /\ heap = [r \in BagRefs |-> [alloc |-> FALSE, keys |-> {}]]
    /\ builder = [d \in DirIds |-> NoBuilder]
    /\ entry = [e \in EntryIds |-> NoEntry]
    /\ uncaught = {}
    /\ unhandled = {}
    /\ halted = FALSE
    /\ scope = NoDirInfo
    /\ ret = NoRet
    /\ NoTemplateCalls
    /\ method = NewMethodTemplate

\* Whether a Template object exists.
HasTemplate == template.state = "made"

\* The property tree of the template as it is now.
Properties == Deep(objs, template.properties, <<>>)

\* new Template(key, type, input.v, input.e): the one object a behaviour
\* follows.
\* The objects of the caller are the first of the heap, the copy that the
\* template keeps comes after them.
CallNew(input, key, type, mode) ==
    /\ template.state = "none"
    /\ call.op = "none"
    /\ IF key = "" \/ type = <<>>
       THEN /\ call' = [NoCall EXCEPT !.op = "new", !.thrown = TRUE]
            /\ UNCHANGED <<objs, template>>
       ELSE LET props == PropsOf(input.h, input.v)
                exports == ExportsOf(props.h, input.e)
                set == SetExport(exports.h, exports.v, key)
                copy == Clone(set, props.v)
                copyExports == Clone(copy.h, exports.v)
            IN  /\ objs' = copyExports.h
                /\ template' = [state |-> "made", key |-> CamelCase[key],
                                resourceType |-> type,
                                properties |-> copy.v, exports |-> copyExports.v,
                                callerProps |-> input.v, callerExports |-> input.e,
                                mode |-> mode,
                                initial |-> Deep(props.h, props.v, <<>>),
                                given |-> [props |-> Deep(input.h, input.v, <<>>),
                                           exports |-> Deep(input.h, input.e, <<>>)],
                                edited |-> FALSE]
                /\ call' = [NoCall EXCEPT !.op = "new", !.path = <<key>>]
    /\ UNCHANGED outs
    /\ UNCHANGED <<buildVars, dirVars, mtVars>>

\* The caller writes to an object of the props it gave the constructor:
\* property k of an object, the first item of an array.
CallerWrites(id, k) ==
    /\ HasTemplate
    /\ id \in Reach(objs, template.callerProps)
    /\ objs[id].kind = "arr" => objs[id].a # <<>>
    /\ objs' = [objs EXCEPT ![id] =
                    IF @.kind = "arr" THEN [@ EXCEPT !.a[1] = Str(<<"Z">>)]
                    ELSE [@ EXCEPT !.m[k] = Str(<<"Z">>)]]
    /\ call' = [NoCall EXCEPT !.op = "callerWrites", !.before = Properties]
    /\ UNCHANGED <<template, outs>>
    /\ UNCHANGED <<buildVars, dirVars, mtVars>>

\* template.finalize(data); the output is kept with the property tree it
\* was made from and with its own value at the time of the return.
CallFinalize(data) ==
    /\ HasTemplate
    /\ Len(outs) < MaxFinalize
    /\ LET r == Finalize(objs, template.properties, data, template.mode)
       IN  /\ objs' = r.h
           /\ outs' = Append(outs, [data |-> data,
                                    Type |-> template.resourceType,
                                    Properties |-> r.v,
                                    raw |-> Properties,
                                    val |-> Deep(r.h, r.v, <<>>)])
           /\ call' = [NoCall EXCEPT !.op = "finalize", !.before = Properties,
                                     !.handle = r.v]
    /\ UNCHANGED template
    /\ UNCHANGED <<buildVars, dirVars, mtVars>>

\* this._ensureProperty(path, def), as the setters of a template call it.
CallEnsureProperty(path, def) ==
    /\ HasTemplate
    /\ Walkable(objs, template.properties.n, path)
    /\ LET r == EnsureProperty(objs, template.properties.n, path, def)
       IN  /\ objs' = r.h
           /\ call' = [NoCall EXCEPT
                          !.op = "ensureProperty", !.path = path, !.def = def,
                          !.before = Properties, !.handle = r.v,
                          !.again = (call.op = "ensureProperty" /\ call.path = path
                                     /\ call.def = def),
                          !.prevHandle = call.handle]
    /\ template' = [template EXCEPT !.edited = TRUE]
    /\ UNCHANGED outs
    /\ UNCHANGED <<buildVars, dirVars, mtVars>>

\* The statement of a setter after _ensureProperty: a write through the
\* value it returned, handle[k] = 'Z' for an object and handle.push('Z')
\* for an array.
SetViaHandle(k) ==
    /\ call.op = "ensureProperty"
    /\ call.handle.t = "ref"
    /\ objs[call.handle.n].kind = "arr" => Len(objs[call.handle.n].a) < MaxItems
    /\ objs' = [objs EXCEPT ![call.handle.n] =
                    IF @.kind = "arr" THEN [@ EXCEPT !.a = Append(@, Str(<<"Z">>))]
                    ELSE [@ EXCEPT !.m[k] = Str(<<"Z">>)]]
    /\ call' = [NoCall EXCEPT
                   !.op = "setViaHandle",
                   !.path = Append(call.path,
                                   IF objs[call.handle.n].kind = "arr"
                                   THEN IndexKey[Len(objs[call.handle.n].a) + 1]
                                   ELSE k),
                   !.before = Properties, !.handle = call.handle]
    /\ UNCHANGED <<template, outs>>
    /\ UNCHANGED <<buildVars, dirVars, mtVars>>

NextTpl ==
    \/ \E input \in CallerInputs, key \in KeyArgs, type \in TypeArgs,
          mode \in UnmatchedModes :
          CallNew(input, key, type, mode)
    \/ \E id \in 1..Len(objs), k \in WriteKeys : CallerWrites(id, k)
    \/ \E data \in DataBags : CallFinalize(data)

TplSpec == InitTpl /\ [][NextTpl]_vars

\* The calls of a setter on a template: _ensureProperty and the write that
\* follows it.
NextEnsure ==
    \/ \E input \in CallerInputs, key \in KeyArgs, type \in TypeArgs,
          mode \in UnmatchedModes :
          CallNew(input, key, type, mode)
    \/ \E path \in EnsurePaths, def \in Defaults : CallEnsureProperty(path, def)
    \/ \E k \in WriteKeys : SetViaHandle(k)

EnsureSpec == InitTpl /\ [][NextEnsure]_vars

(***************************************************************************)
(* Properties of Template (all under TplSpec).                             *)
(***************************************************************************)
\* The value that output number i holds now.
OutputNow(i) == Deep(objs, outs[i].Properties, <<>>)

\* C15: finalize never mutates the template: after a finalize call the
\* property tree is what it was before the call; no output shares an
\* object or array with the property tree or with another output; every
\* output still has the value it was returned with, whatever was called
\* after it; and two calls made with the same data bag on the same
\* property tree returned equal values.
C15_FinalizeLeavesTree ==
    /\ call.op = "finalize" => Properties = call.before
    /\ \A i \in 1..Len(outs) :
          /\ Reach(objs, outs[i].Properties) \cap Reach(objs, template.properties) = {}
          /\ OutputNow(i) = outs[i].val
          /\ \A j \in 1..Len(outs) :
                /\ i # j => Reach(objs, outs[i].Properties)
                               \cap Reach(objs, outs[j].Properties) = {}
                /\ (outs[i].data = outs[j].data /\ outs[i].raw = outs[j].raw)
                      => outs[i].val = outs[j].val

\* C15 witness: three finalize calls on a tree of three containers, the
\* first and the third with one data bag, the second with another one that
\* gives another output.
C15_Witness ==
    /\ Len(outs) = 3
    /\ Cardinality(Reach(objs, template.properties)) = 3
    /\ outs[1].data = outs[3].data /\ outs[1].val = outs[3].val
    /\ outs[2].data # outs[1].data /\ outs[2].val # outs[1].val

\* A tree with every string replaced by the empty string: the paths, the
\* containers and the scalars that are no strings.
Shape(t) == {<<e[1], IF e[2].t = "string" THEN Str(<<>>) ELSE e[2]>> : e \in t}

\* Whether a string of the tree has a placeholder.
HasPlaceholder(t) == \E e \in t : \E i \in 1..Len(e[2].s) : IsPlaceholder(e[2].s[i])

\* C16: finalize preserves structure: the output has the paths of the
\* property tree, with an array of the same length where the tree has an
\* array, an object with the same keys where it has an object and the same
\* scalar where it has a scalar that is no string; and the output of a
\* tree without placeholders equals the tree, whatever the data bag.
C16_FinalizeKeepsStructure ==
    \A i \in 1..Len(outs) :
        /\ Shape(outs[i].val) = Shape(outs[i].raw)
        /\ ~HasPlaceholder(outs[i].raw) => outs[i].val = outs[i].raw

\* C16 witness: a tree without placeholders that holds an array of a number
\* and a string, finalized with a data bag that has keys.
C16_Witness ==
    \E i \in 1..Len(outs) :
        /\ ~HasPlaceholder(outs[i].raw)
        /\ outs[i].data.keys # {}
        /\ <<<<"q">>, Val("arr", <<>>, 2)>> \in outs[i].val
        /\ <<<<"q", "0">>, Num(1)>> \in outs[i].val
        /\ <<<<"q", "1">>, Str(<<"b">>)>> \in outs[i].val

\* The strings of a sequence, one after the other.
RECURSIVE Concat(_)
Concat(strs) == IF strs = <<>> THEN <<>> ELSE Head(strs) \o Concat(Tail(strs))

\* A string with each placeholder that names one of the keys replaced by
\* the value of that key, and each other placeholder left or removed.
Substituted(str, keys, vals, mode) ==
    Concat([i \in 1..Len(str) |->
               IF ~IsPlaceholder(str[i]) THEN <<str[i]>>
               ELSE IF IdentOf(str[i]) \in keys THEN vals[IdentOf(str[i])]
               ELSE IF mode = "verbatim" THEN <<str[i]>> ELSE <<>>])

\* C17: in the output of finalize(dataBag) every string of the property
\* tree, at any depth, has each placeholder that names a key of dataBag
\* replaced by the value of that key; a dataBag that is absent or no plain
\* object counts as one without keys.
C17_FinalizeSubstitutes ==
    \A i \in 1..Len(outs) :
        outs[i].val =
            {<<e[1], IF e[2].t = "string"
                     THEN Str(Substituted(e[2].s,
                                          IF outs[i].data.type = "object"
                                          THEN outs[i].data.keys ELSE {},
                                          outs[i].data.vals, template.mode))
                     ELSE e[2]>> : e \in outs[i].raw}

\* C17 witness: a string with two placeholders for x, held by an array of
\* an object, finalized with a value for x.
C17_Witness ==
    \E i \in 1..Len(outs) :
        /\ <<<<"p", "0">>, Str(<<PlaceholderOf.x, "b", PlaceholderOf.x>>)>> \in outs[i].raw
        /\ <<<<"p", "0">>, Str(<<"V", "b", "V">>)>> \in outs[i].val

\* C17 witness: finalize called without a data bag on a tree that has
\* placeholders.
C17_WitnessNoBag ==
    \E i \in 1..Len(outs) :
        outs[i].data.type = "undefined" /\ HasPlaceholder(outs[i].raw)

\* C18: the template keeps a deep copy of the props it was constructed
\* with: it shares no object or array with them, a write of the caller to
\* its own object at any depth leaves the property tree and every output
\* as they were, and until a property is set on the template the property
\* tree, also the one each finalize call read, is the tree given at
\* construction.
C18_PropsAreDeepCopy ==
    HasTemplate =>
        /\ Reach(objs, template.properties) \cap Reach(objs, template.callerProps) = {}
        /\ call.op = "callerWrites" =>
              /\ Properties = call.before
              /\ \A i \in 1..Len(outs) : OutputNow(i) = outs[i].val
        /\ ~template.edited =>
              /\ Properties = template.initial
              /\ \A i \in 1..Len(outs) : outs[i].raw = template.initial

\* C18 witness: finalize called after the caller wrote to a nested object
\* of the props.
C18_Witness ==
    /\ call.op = "finalize"
    /\ <<<<"q", "p">>, Str(<<"Z">>)>> \in Deep(objs, template.callerProps, <<>>)
    /\ <<<<"q", "p">>, Str(<<"Z">>)>> \notin template.initial
    /\ Properties = template.initial

(***************************************************************************)
(* Properties of _ensureProperty (under EnsureSpec).                       *)
(***************************************************************************)
\* The value found by following the property names of path from v; absent
\* when the walk leaves the objects.
RECURSIVE ValueAt(_, _, _)
ValueAt(h, v, path) ==
    IF path = <<>> THEN v
    ELSE IF v.t # "ref" THEN Absent
    ELSE IF h[v.n].kind # "map" THEN Absent
    ELSE ValueAt(h, h[v.n].m[Head(path)], Tail(path))

\* Whether path a starts path b.
IsPrefixOf(a, b) == Len(a) <= Len(b) /\ SubSeq(b, 1, Len(a)) = a

\* The objects on the way to the end of a path, as entries of a tree.
ObjectsAlong(path) ==
    {<<SubSeq(path, 1, n), Val("map", <<>>, 0)>> : n \in 0..(Len(path) - 1)}

\* The default value of a call as the entry of a tree.
DefaultEntry(path, def) ==
    <<path, IF def = "arr" THEN Val("arr", <<>>, 0) ELSE Val("map", <<>>, 0)>>

\* C19: after ensureProperty(path, defaultValue) every property on the way
\* along the path holds an object; the value returned is the one stored at
\* the end of the path, so that a write through it shows in the property
\* tree; a value that was there before the call is left as it was, with the
\* rest of the tree, and a missing one is set to the default value, with
\* nothing else changed but the objects created on the way; and a second
\* call with the same path and default leaves the tree as it is and returns
\* the same value.
C19_EnsureProperty ==
    /\ call.op = "ensureProperty" =>
          /\ call.handle = ValueAt(objs, template.properties, call.path)
          /\ ~Missing(call.handle)
          /\ ObjectsAlong(call.path) \subseteq Properties
          /\ IF \E e \in call.before : e[1] = call.path /\ e[2] # Undefined
             THEN Properties = call.before
             ELSE Properties =
                    {e \in call.before : ~(e[2] = Undefined /\ IsPrefixOf(e[1], call.path))}
                    \cup ObjectsAlong(call.path)
                    \cup {DefaultEntry(call.path, call.def)}
          /\ LET second == EnsureProperty(objs, template.properties.n, call.path, call.def)
             IN  second.h = objs /\ second.v = call.handle
          /\ call.again => (Properties = call.before /\ call.handle = call.prevHandle)
    /\ call.op = "setViaHandle" =>
          /\ <<call.path, Str(<<"Z">>)>> \in Properties
          /\ call.handle = ValueAt(objs, template.properties,
                                   SubSeq(call.path, 1, Len(call.path) - 1))

\* C19 witness: a call with a path of two names on a tree whose first
\* property of the path is undefined: the object on the way is created.
C19_Witness ==
    /\ call.op = "ensureProperty" /\ call.path = <<"q", "p">>
    /\ <<<<"q">>, Undefined>> \in call.before
    /\ call.handle.t = "ref"

\* C19 witness: the second of two calls with the same path of two names
\* and the same default.
C19_WitnessAgain ==
    /\ call.op = "ensureProperty" /\ call.again
    /\ Len(call.path) = 2 /\ call.handle.t = "ref"

\* C19 witness: a call for a property that holds a string.
C19_WitnessKept ==
    /\ call.op = "ensureProperty" /\ call.handle.t = "string" /\ call.def = "arr"

\* C19 witness: a write through the value returned for a path of two names.
C19_WitnessWrite == call.op = "setViaHandle" /\ Len(call.path) = 3

(***************************************************************************)
(* Properties of the loader, continued (under Spec).                       *)
(***************************************************************************)
\* C20: every build() call settles: once every started callback has fired
\* and every promise reaction has run, and the process has not ended, the
\* promise of each builder whose build() was called is fulfilled or
\* rejected.
C20_BuildSettles ==
    (Settled /\ ~halted) =>
        \A d \in DirIds :
            builder[d].state \notin {"none", "constructed"}
                => builder[d].promise.state # "pending"

\* C21: build() resolves only after every listed entry is done: when the
\* build promise of a directory is fulfilled, the per-entry promise of each
\* of its entries and the promise of that entry's addtemplates reaction
\* are fulfilled, the build promise of each subdirectory is fulfilled, and
\* the list it was fulfilled with is the list of the builder as it is now
\* (nothing was pushed since).
C21_ResolvesAfterAllEntries ==
    \A d \in DirIds :
        builder[d].promise.state = "fulfilled" =>
            /\ builder[d].promise.value = builder[d].templateList
            /\ \A e \in Children(d) :
                  /\ entry[e].p.state = "fulfilled"
                  /\ entry[e].q.state = "fulfilled"
                  /\ tree[e].kind.stat = "dir" =>
                        /\ builder[e].promise.state = "fulfilled"
                        /\ entry[e].p.value = builder[e].promise.value

\* C21 witness: the root build is fulfilled with the templates of a
\* subdirectory that holds a generator file.
C21_Witness ==
    /\ builder[0].promise.state = "fulfilled"
    /\ \E e \in Children(0) :
          /\ tree[e].kind.stat = "dir"
          /\ builder[e].promise.state = "fulfilled"
          /\ builder[e].promise.value # <<>>
          /\ builder[0].promise.value = builder[e].promise.value

\* Whether block is a run of consecutive elements of list.
IsBlockOf(block, list) ==
    \E i \in 0..(Len(list) - Len(block)) :
        \A k \in 1..Len(block) : list[i + k] = block[k]

\* C24: in the list a build promise is fulfilled with, the templates of
\* each entry of the directory (a generator file or a whole subdirectory)
\* stand next to each other, in the order in which the entry's promise
\* gave them.
C24_EntryBlocksContiguous ==
    \A d \in DirIds :
        builder[d].promise.state = "fulfilled" =>
            \A e \in Children(d) :
                entry[e].p.state = "fulfilled"
                    => IsBlockOf(entry[e].p.value, builder[d].promise.value)

\* C24 witness: two generator files of the root with two templates each,
\* the second listed one done first.
C24_Witness ==
    /\ builder[0].promise.state = "fulfilled"
    /\ Len(builder[0].promise.value) = 4
    /\ \E e, f \in Children(0) :
          /\ e < f
          /\ Len(entry[e].p.value) = 2 /\ Len(entry[f].p.value) = 2
          /\ builder[0].promise.value = entry[f].p.value \o entry[e].p.value

(***************************************************************************)
(* MethodTemplate calls: setDefaultIntegrationResponses and                *)
(* setIntegrationResponse on one MethodTemplate.                           *)
(***************************************************************************)
\* setDefaultIntegrationResponses(): both lists are replaced.
SetDefaultIntegrationResponses ==
    /\ method' = [IntegrationResponses |-> DefaultIntegrationResponses,
                  MethodResponses |-> DefaultMethodResponses,
                  last |-> [NoMethodCall EXCEPT
                              !.op = "setDefaultIntegrationResponses",
                              !.before = method.IntegrationResponses]]
    /\ UNCHANGED <<buildVars, dirVars, tplVars>>

\* setIntegrationResponse(statusCode, selectionPattern): the entry of the
\* status code is found or pushed in each of the two lists, and its
\* StatusCode and SelectionPattern are set.  _ensureProperty returns the
\* list the property holds.
SetIntegrationResponse(statusCode, selectionPattern) ==
    /\ IF statusCode = ""
       THEN method' = [method EXCEPT
                          !.last = [NoMethodCall EXCEPT
                                      !.op = "setIntegrationResponse",
                                      !.code = statusCode, !.pattern = selectionPattern,
                                      !.thrown = TRUE,
                                      !.before = method.IntegrationResponses]]
       ELSE LET int == method.IntegrationResponses
                met == method.MethodResponses
                i == FindResponse(int, statusCode)
                j == FindResponse(met, statusCode)
            IN  method' =
                  [IntegrationResponses |->
                      IF i = 0
                      THEN Append(int, IntegrationResponse(statusCode, selectionPattern, FALSE))
                      ELSE [int EXCEPT ![i].StatusCode = statusCode,
                                       ![i].SelectionPattern = selectionPattern],
                   MethodResponses |->
                      IF j = 0 THEN Append(met, MethodResponse(statusCode, FALSE))
                      ELSE [met EXCEPT ![j].StatusCode = statusCode],
                   last |-> [NoMethodCall EXCEPT
                               !.op = "setIntegrationResponse",
                               !.code = statusCode, !.pattern = selectionPattern,
                               !.before = int]]
    /\ UNCHANGED <<buildVars, dirVars, tplVars>>

NextMethod ==
    \/ SetDefaultIntegrationResponses
    \/ \E statusCode \in StatusCodes, selectionPattern \in SelectionPatterns :
          SetIntegrationResponse(statusCode, selectionPattern)

MethodSpec == InitTpl /\ [][NextMethod]_vars

\* The status codes of a list of responses.
CodesOf(list) == {list[i].StatusCode : i \in 1..Len(list)}

\* Whether no two entries of a list have the same status code.
OnePerCode(list) ==
    \A i, j \in 1..Len(list) : list[i].StatusCode = list[j].StatusCode => i = j

\* C22: after any sequence of setIntegrationResponse and
\* setDefaultIntegrationResponses calls, each of the two lists has at most
\* one entry per status code and every status code of
\* IntegrationResponses is one of MethodResponses; and a
\* setIntegrationResponse for a status code that has an entry sets the
\* SelectionPattern of that entry and adds none.
C22_OneResponsePerCode ==
    /\ OnePerCode(method.IntegrationResponses)
    /\ OnePerCode(method.MethodResponses)
    /\ CodesOf(method.IntegrationResponses) \subseteq CodesOf(method.MethodResponses)
    /\ (method.last.op = "setIntegrationResponse" /\ ~method.last.thrown) =>
          LET int == method.IntegrationResponses
              i == FindResponse(int, method.last.code)
          IN  /\ i # 0
              /\ int[i].SelectionPattern = method.last.pattern
              /\ method.last.code \in CodesOf(method.last.before) =>
                    /\ Len(int) = Len(method.last.before)
                    /\ \A k \in 1..Len(int) :
                          /\ int[k].StatusCode = method.last.before[k].StatusCode
                          /\ k # i => int[k] = method.last.before[k]

\* C22 witness: setIntegrationResponse for a status code of the default
\* responses, with another pattern than the default one.
C22_Witness ==
    /\ method.last.op = "setIntegrationResponse"
    /\ method.last.code = "404" /\ method.last.pattern = "P.*"
    /\ Len(method.last.before) = 5
    /\ Len(method.IntegrationResponses) = 5
    /\ method.IntegrationResponses[3].SelectionPattern = "P.*"

(***************************************************************************)
(* Properties of the Template constructor (under TplSpec).                 *)
(***************************************************************************)
\* C23: the constructor modifies no object of the caller: when it has
\* returned, the props argument and the exports argument have the keys and
\* values they had before the call, and the exports of the template map
\* the key given to the camel case key.
C23_ConstructorLeavesArguments ==
    (call.op = "new" /\ ~call.thrown) =>
        /\ Deep(objs, template.callerProps, <<>>) = template.given.props
        /\ Deep(objs, template.callerExports, <<>>) = template.given.exports
        /\ <<call.path, Str(<<template.key>>)>> \in Deep(objs, template.exports, <<>>)

(***************************************************************************)
(* Properties of resource-utils (under DirSpec).                           *)
(***************************************************************************)
\* C25: for a scope of any level, getParentResource returns either the
\* Fn::GetAtt reference whose placeholder names the root API token, or a
\* Ref whose placeholder names the token getParentToken('RES') returns, and
\* that token is not null.
C25_ParentResourceNamesToken ==
    ret.op = "getParentResource" =>
        \/ /\ ret.arg = <<"Fn::GetAtt">>
           /\ ret.val = <<"<", "%", " ">> \o GetRootToken(ret.on, ApiToken) \o <<" ", "%", ">">>
        \/ /\ ret.arg = <<"Ref">>
           /\ GetParentToken(ret.on, ResToken) # Null
           /\ ret.val = <<"<", "%", " ">> \o GetParentToken(ret.on, ResToken)
                           \o <<" ", "%", ">">>

====
